---- MODULE Spec2Model ----
(***************************************************************************)
(* Win Prediction Engine of ClashVision.                                   *)
(*                                                                         *)
(* One process holds one WinPredictor, of one of two classes: the          *)
(* heuristic one (app/ml/predictor_simple.py) or the learned one           *)
(* (app/ml/predictor.py).  A call of initialize, predict or predict_live   *)
(* contains no suspension point that yields to another task, so each is   *)
(* one atomic step.  The value a call returns (or the error it raises) is  *)
(* held in `ret` until the caller has taken it.                            *)
(*                                                                         *)
(* Python floats are modelled as exact rationals <<numerator,              *)
(* denominator>> in lowest terms with a positive denominator.  The field   *)
(* `timestamp` of a result (datetime.utcnow) is not modelled.              *)
(***************************************************************************)
EXTENDS Integers, Sequences, FiniteSets

VARIABLES backend, is_ready, model, call, ret, serving, db

vars == <<backend, is_ready, model, call, ret, serving, db>>

(***************************************************************************)
(* Bounds of the model.                                                    *)
(***************************************************************************)
\* wins are drawn from 0..MaxWins and the worked example of the spec
MaxWins == 1
\* losses are drawn from 0..MaxLosses and the worked example of the spec
MaxLosses == 1
\* random.random() is drawn from {k / RandSteps : k \in 0..RandSteps-1}
RandSteps == 4
\* the random.random() inside random.uniform is drawn from
\* {k / UniformSteps : k \in 0..UniformSteps-1}
UniformSteps == 2
\* remaining times are drawn within TimeSlack seconds of each phase threshold
TimeSlack == 1
\* the learned model's scalar is drawn from the grid {k / ProbGrid}
ProbGrid == 10
\* ... from OutOfRange grid steps below 0 to OutOfRange grid steps above 1
OutOfRange == 1
\* each side has lost at most MaxTowersLost of its towers
MaxTowersLost == 1
\* each table of the database holds at most MaxRows rows
MaxRows == 1

(***************************************************************************)
(* Exact rational arithmetic.                                              *)
(***************************************************************************)
Abs(n) == IF n < 0 THEN 0 - n ELSE n

RECURSIVE GCD(_, _)
GCD(a, b) == IF b = 0 THEN a ELSE GCD(b, a % b)

Norm(n, d) ==
    LET s == IF d < 0 THEN 0 - 1 ELSE 1
        g == GCD(Abs(n), Abs(d))
    IN  <<(s * n) \div g, (s * d) \div g>>

R(n, d) == Norm(n, d)
RInt(n) == <<n, 1>>
RAdd(x, y) == Norm(x[1] * y[2] + y[1] * x[2], x[2] * y[2])
RSub(x, y) == Norm(x[1] * y[2] - y[1] * x[2], x[2] * y[2])
RMul(x, y) == Norm(x[1] * y[1], x[2] * y[2])
RDiv(x, y) == Norm(x[1] * y[2], x[2] * y[1])
RLt(x, y) == x[1] * y[2] < y[1] * x[2]
RLe(x, y) == x[1] * y[2] <= y[1] * x[2]
RGt(x, y) == RLt(y, x)
RGe(x, y) == RLe(y, x)
RAbs(x) == <<Abs(x[1]), x[2]>>
RMin(x, y) == IF RLe(x, y) THEN x ELSE y
RMax(x, y) == IF RLe(y, x) THEN x ELSE y
Max(a, b) == IF a >= b THEN a ELSE b

Zero == RInt(0)
One == RInt(1)
Half == R(1, 2)

RECURSIVE RSum(_, _)
\* sum(f[k] for k in S)
RSum(f, S) ==
    IF S = {} THEN Zero
    ELSE LET k == CHOOSE x \in S : TRUE
         IN  RAdd(f[k], RSum(f, S \ {k}))

(***************************************************************************)
(* Python dicts: a dict is a function whose DOMAIN is its set of keys.     *)
(* A dict is drawn as a record over all keys in which a key may hold the   *)
(* marker of its absence; MkDict drops those keys.                         *)
(***************************************************************************)
NoNum == <<0, 0>>
NoInt == 0 - 1000
\* the value None held under a key of a battle context (a JSON null)
NoneInt == NoInt - 1
MkDict(r, absent) == [k \in {x \in DOMAIN r : r[x] # absent} |-> r[k]]
\* d.get(k, default)
Get(d, k, default) == IF k \in DOMAIN d THEN d[k] ELSE default

(***************************************************************************)
(* Program constants.                                                      *)
(***************************************************************************)
TrophyCap == 6000
MaxTowers == 3
EarlyLimit == 120
MidLimit == 60
DefaultTimeSimple == 180
MaxRecommendations == 3

FactorNames ==
    {"deck_synergy", "elixir_efficiency", "opponent_counter",
     "player_skill", "recent_performance"}

Phases == {"early_game", "mid_game", "late_game", "overtime"}

(***************************************************************************)
(* Input domains.                                                          *)
(***************************************************************************)
\* the player of the specification's worked example
ExamplePlayer == [wins |-> 70, losses |-> 30, trophies |-> 5000]

WinsValues == 0..MaxWins \cup {ExamplePlayer.wins}
LossesValues == 0..MaxLosses \cup {ExamplePlayer.losses}
TrophyValues == {0, ExamplePlayer.trophies, TrophyCap, TrophyCap + 1000}

Players ==
    [wins : WinsValues, losses : LossesValues, trophies : TrophyValues]

\* the values random.random() may return, in [0, 1)
Random == {R(k, RandSteps) : k \in 0..(RandSteps - 1)}
\* the values random.uniform(a, b) may return: a + (b - a) * random()
Uniform(a, b) ==
    {RAdd(a, RMul(RSub(b, a), R(k, UniformSteps))) : k \in 0..(UniformSteps - 1)}
\* random.randint(-2, 2)
ElixirAdvantageDraws == (0 - 2)..2

TimeValues ==
    {NoInt, NoneInt} \cup
    {b + d : b \in {0, MidLimit, EarlyLimit}, d \in (0 - TimeSlack)..TimeSlack}
TowerValues == {NoInt} \cup (MaxTowers - MaxTowersLost)..MaxTowers
ElixirAdvantageValues == {NoInt, 0 - 1}

BattleDatas ==
    {MkDict(r, NoInt) :
        r \in [time_remaining : TimeValues, player_towers : TowerValues,
               opponent_towers : TowerValues,
               elixir_advantage : ElixirAdvantageValues]}

FeatureSets ==
    {MkDict(r, NoNum) :
        r \in [deck_synergy_score : {NoNum, R(0 - 1, 2), R(3, 10), Half},
               elixir_efficiency : {NoNum, Half},
               opponent_counter_score : {NoNum, Half},
               skill_rating : {Zero, Half},
               recent_win_rate : {NoNum, R(1, 4)},
               average_elixir_cost :
                   {NoNum, R(5, 2), RInt(3), RInt(4), R(9, 2)}]}

\* the scalar the learned model returns: a probability, or a value out of range
ModelOutputs == {R(k, ProbGrid) : k \in (0 - OutOfRange)..(ProbGrid + OutOfRange)}

NoCall == [op |-> "none"]
NoRet == [status |-> "none"]
\* raise ValueError("Model not ready"), logged and re-raised by the handler
NotReady == [status |-> "error", error |-> "Model not ready"]
\* the call raised the TypeError of comparing None with a number
TypeError == [status |-> "error", error |-> "TypeError"]
\* the dict {}
EmptyDict == [k \in {} |-> 0]

Take(s, n) == SubSeq(s, 1, IF Len(s) < n THEN Len(s) ELSE n)

(***************************************************************************)
(* The heuristic backend: app/ml/predictor_simple.py                       *)
(***************************************************************************)
\* win_rate = player_wins / max(1, player_wins + player_losses)
win_rate_simple(player_data) ==
    LET player_wins == Get(player_data, "wins", 0)
        player_losses == Get(player_data, "losses", 0)
    IN  R(player_wins, Max(1, player_wins + player_losses))

\* player_trophies / 6000 without the cap of min(1.0, ...)
trophy_factor_simple_uncapped(player_data) ==
    R(Get(player_data, "trophies", 0), TrophyCap)

\* trophy_factor = min(1.0, player_trophies / 6000)
trophy_factor_simple(player_data) ==
    RMin(One, R(Get(player_data, "trophies", 0), TrophyCap))

WinRateWeight == R(6, 10)
TrophyWeight == R(4, 10)
NoiseWidth == R(3, 10)
MinProbability == R(1, 10)
MaxProbability == R(9, 10)
ConfidenceBase == R(6, 10)
ConfidenceWidth == R(3, 10)
LiveWidth == R(6, 10)
LowBand == R(4, 10)
HighBand == R(7, 10)
PushBand == R(6, 10)

\* base_probability = (win_rate * 0.6) + (trophy_factor * 0.4)
base_probability_simple(player_data) ==
    RAdd(RMul(win_rate_simple(player_data), WinRateWeight),
         RMul(trophy_factor_simple(player_data), TrophyWeight))

\* the term predict adds to base_probability: (random.random() - 0.5) * 0.3
noise_simple(rnd) == RMul(RSub(rnd, Half), NoiseWidth)

\* win_probability = max(0.1, min(0.9, base_probability + (random.random() - 0.5) * 0.3))
win_probability_simple(player_data, rnd) ==
    RMax(MinProbability,
         RMin(MaxProbability,
              RAdd(base_probability_simple(player_data), noise_simple(rnd))))

\* confidence = 0.6 + random.random() * 0.3
confidence_simple(rnd) == RAdd(ConfidenceBase, RMul(rnd, ConfidenceWidth))

\* win_probability of predict_live: 0.5 + (random.random() - 0.5) * 0.6
live_probability_simple(rnd) == RAdd(Half, RMul(RSub(rnd, Half), LiveWidth))

\* what the four random.uniform calls of predict may return
DeckSynergyDraws == Uniform(R(3, 10), R(9, 10))
ElixirEfficiencyDraws == Uniform(R(4, 10), R(8, 10))
OpponentCounterDraws == Uniform(R(2, 10), R(7, 10))
RecentPerformanceDraws == Uniform(R(3, 10), R(8, 10))

\* influencing_factors of predict; u1..u4 are what random.uniform returned
influencing_factors_simple(win_rate, u1, u2, u3, u4) ==
    [deck_synergy |-> u1,
     elixir_efficiency |-> u2,
     opponent_counter |-> u3,
     player_skill |-> win_rate,
     recent_performance |-> u4]

extra_recommendations ==
    <<"Cycle to your win condition", "Defend and counter-attack",
      "Build a strong push", "Use spells for maximum value",
      "Protect your towers">>

\* _generate_recommendations(win_probability, player_data); `choice` is the
\* index random.choice picks
generate_recommendations_simple(win_probability, player_data, choice) ==
    LET band ==
            IF RLt(win_probability, LowBand)
            THEN <<"Focus on defensive plays",
                   "Look for positive elixir trades",
                   "Play more conservatively">>
            ELSE IF RGt(win_probability, HighBand)
            THEN <<"Maintain aggressive pressure",
                   "Look for tower damage opportunities",
                   "Keep up the momentum">>
            ELSE <<"Adapt to opponent's strategy",
                   "Monitor elixir carefully",
                   "Stay flexible with your approach">>
        recommendations == Append(band, extra_recommendations[choice])
    IN  Take(recommendations, MaxRecommendations)

\* _determine_battle_phase(time_remaining)
determine_battle_phase_simple(time_remaining) ==
    IF time_remaining = NoneInt THEN "TypeError"
    ELSE IF time_remaining > EarlyLimit THEN "early_game"
    ELSE IF time_remaining > MidLimit THEN "mid_game"
    ELSE IF time_remaining > 0 THEN "late_game"
    ELSE "overtime"

\* _generate_live_recommendations(win_probability, battle_data)
generate_live_recommendations_simple(win_probability, battle_data) ==
    LET time_remaining == Get(battle_data, "time_remaining", DefaultTimeSimple)
        first ==
            IF time_remaining > EarlyLimit
            THEN "Learn opponent's deck rotation"
            ELSE IF time_remaining > MidLimit THEN "Build your main push"
            ELSE "Go for decisive plays"
        second ==
            IF RGt(win_probability, PushBand) THEN "Maintain pressure"
            ELSE "Focus on defense"
    IN  <<first, second, "Watch your elixir management">>

\* the dict predict returns
predict_result_simple(player_data, r1, r2, u1, u2, u3, u4, choice) ==
    LET win_rate == win_rate_simple(player_data)
        win_probability == win_probability_simple(player_data, r1)
    IN  [status |-> "ok",
         win_probability |-> win_probability,
         confidence |-> confidence_simple(r2),
         model_version |-> "1.0.0-simple",
         input_features |->
             [player_trophies |-> Get(player_data, "trophies", 0),
              win_rate |-> win_rate,
              trophy_factor |-> trophy_factor_simple(player_data)],
         influencing_factors |->
             influencing_factors_simple(win_rate, u1, u2, u3, u4),
         recommendations |->
             generate_recommendations_simple(win_probability, player_data, choice)]

\* the dict predict_live returns; `adv` is what random.randint(-2, 2) returns
predict_live_result_simple(battle_data, r1, r2, adv) ==
    LET win_probability == live_probability_simple(r1)
        current_phase ==
            determine_battle_phase_simple(
                Get(battle_data, "time_remaining", DefaultTimeSimple))
    IN  IF current_phase = "TypeError" THEN TypeError
        ELSE
        [status |-> "ok",
         win_probability |-> win_probability,
         confidence |-> confidence_simple(r2),
         model_version |-> "1.0.0-simple",
         battle_analysis |->
             [battle_time_remaining |->
                  Get(battle_data, "time_remaining", DefaultTimeSimple),
              player_towers |-> Get(battle_data, "player_towers", MaxTowers),
              opponent_towers |-> Get(battle_data, "opponent_towers", MaxTowers),
              elixir_advantage |-> adv,
              current_phase |-> current_phase],
         recommendations |->
             generate_live_recommendations_simple(win_probability, battle_data)]

\* WinPredictor.initialize of the heuristic backend
InitializeSimple ==
    /\ backend = "simple"
    /\ is_ready' = TRUE
    /\ UNCHANGED <<backend, model, call, ret, serving, db>>

\* WinPredictor.predict of the heuristic backend
PredictSimple(player_data, r1, r2, u1, u2, u3, u4, choice) ==
    /\ backend = "simple"
    /\ call' = [op |-> "predict", player_data |-> player_data]
    /\ ret' = IF ~is_ready THEN NotReady
              ELSE predict_result_simple(player_data, r1, r2, u1, u2, u3, u4, choice)
    /\ UNCHANGED <<backend, is_ready, model, serving, db>>

\* WinPredictor.predict_live of the heuristic backend (it does not read is_ready)
PredictLiveSimple(battle_data, r1, r2, adv) ==
    /\ backend = "simple"
    /\ call' = [op |-> "predict_live", battle_data |-> battle_data]
    /\ ret' = predict_live_result_simple(battle_data, r1, r2, adv)
    /\ UNCHANGED <<backend, is_ready, model, serving, db>>

(***************************************************************************)
(* The learned backend: app/ml/predictor.py                                *)
(*                                                                         *)
(* FeatureEngineer and TransformerLSTMModel are not part of the sources    *)
(* at hand.  What extract_features returns is any element of FeatureSets,  *)
(* and what the model returns is any element of ModelOutputs.              *)
(***************************************************************************)
\* _calculate_confidence(prediction_raw)
calculate_confidence(prob) ==
    LET confidence == RMul(RInt(2), RAbs(RSub(prob, Half)))
    IN  RMin(One, RMax(Zero, confidence))

\* the feature each factor is read from
FactorFeature ==
    [deck_synergy |-> "deck_synergy_score",
     elixir_efficiency |-> "elixir_efficiency",
     opponent_counter |-> "opponent_counter_score",
     player_skill |-> "skill_rating",
     recent_performance |-> "recent_win_rate"]

\* _analyze_influencing_factors(features)
analyze_influencing_factors(features) ==
    LET factors == [k \in FactorNames |-> Get(features, FactorFeature[k], Zero)]
        total == RSum([k \in FactorNames |-> RAbs(factors[k])], FactorNames)
    IN  IF RGt(total, Zero)
        THEN [k \in FactorNames |-> RDiv(factors[k], total)]
        ELSE factors

\* a variant of the elixir-curve rule that takes a cost of exactly 4.0 for a
\* heavy deck (>= for >); C9 tells it from the code
elixir_recommendations_inclusive(features) ==
    IF RGe(Get(features, "average_elixir_cost", Zero), RInt(4))
    THEN <<"Heavy deck - be patient with elixir management">>
    ELSE IF RLt(Get(features, "average_elixir_cost", Zero), RInt(3))
    THEN <<"Fast cycle deck - maintain constant pressure">>
    ELSE <<>>

\* the elixir-curve rule of _generate_recommendations
elixir_recommendations(features) ==
    IF RGt(Get(features, "average_elixir_cost", Zero), RInt(4))
    THEN <<"Heavy deck - be patient with elixir management">>
    ELSE IF RLt(Get(features, "average_elixir_cost", Zero), RInt(3))
    THEN <<"Fast cycle deck - maintain constant pressure">>
    ELSE <<>>

\* the probability bands of _generate_recommendations
band_recommendations(features, win_probability) ==
    IF RLt(win_probability, LowBand)
    THEN <<"Consider a more defensive strategy",
           "Focus on positive elixir trades">>
         \o (IF RLt(Get(features, "deck_synergy_score", Zero), Half)
             THEN <<"Your deck synergy is low - consider card substitutions">>
             ELSE <<>>)
    ELSE IF RGt(win_probability, HighBand)
    THEN <<"You have a strong advantage - maintain pressure",
           "Look for opportunities to take towers">>
    ELSE <<"Match is balanced - adapt to opponent's strategy",
           "Monitor elixir carefully">>

\* _generate_recommendations(features, win_probability)
generate_recommendations(features, win_probability) ==
    band_recommendations(features, win_probability)
        \o elixir_recommendations(features)

\* a variant of the classifier that takes exactly 120 seconds for early_game
\* (>= for >); C6 tells it from the code
determine_battle_phase_inclusive(battle_data) ==
    LET time_remaining == Get(battle_data, "time_remaining", 0)
    IN  IF time_remaining = NoneInt THEN "TypeError"
        ELSE IF time_remaining >= EarlyLimit THEN "early_game"
        ELSE IF time_remaining > MidLimit THEN "mid_game"
        ELSE IF time_remaining > 0 THEN "late_game"
        ELSE "overtime"

\* _determine_battle_phase(battle_data)
determine_battle_phase(battle_data) ==
    LET time_remaining == Get(battle_data, "time_remaining", 0)
    IN  IF time_remaining = NoneInt THEN "TypeError"
        ELSE IF time_remaining > EarlyLimit THEN "early_game"
        ELSE IF time_remaining > MidLimit THEN "mid_game"
        ELSE IF time_remaining > 0 THEN "late_game"
        ELSE "overtime"

\* _analyze_battle_state(battle_data)
\* the TypeError raised in _determine_battle_phase is caught: return {}
analyze_battle_state(battle_data) ==
    IF determine_battle_phase(battle_data) = "TypeError" THEN EmptyDict
    ELSE
    [battle_time_remaining |-> Get(battle_data, "time_remaining", 0),
     player_towers |-> Get(battle_data, "player_towers", MaxTowers),
     opponent_towers |-> Get(battle_data, "opponent_towers", MaxTowers),
     elixir_advantage |-> Get(battle_data, "elixir_advantage", 0),
     current_phase |-> determine_battle_phase(battle_data)]

\* _generate_live_recommendations(features, win_probability, battle_data)
generate_live_recommendations(win_probability, battle_data) ==
    LET battle_phase == determine_battle_phase(battle_data)
        towers_down == MaxTowers - Get(battle_data, "player_towers", MaxTowers)
        opponent_towers_down ==
            MaxTowers - Get(battle_data, "opponent_towers", MaxTowers)
    IN  IF battle_phase = "TypeError" THEN <<>>
        ELSE IF battle_phase = "early_game"
        THEN <<"Focus on learning opponent's deck",
               "Make positive elixir trades">>
        ELSE IF battle_phase = "mid_game"
        THEN IF RGt(win_probability, PushBand)
             THEN <<"Build a strong push">>
             ELSE <<"Defend and counter-attack">>
        ELSE IF battle_phase = "late_game"
        THEN IF towers_down > opponent_towers_down
             THEN <<"Play defensively - protect your lead">>
             ELSE <<"Time for aggressive plays">>
        ELSE IF battle_phase = "overtime"
        THEN <<"High-risk, high-reward plays", "Focus on tower damage">>
        ELSE <<>>

\* the dict predict returns; prediction_raw is the model's scalar
predict_result(features, prediction_raw) ==
    [status |-> "ok",
     win_probability |-> prediction_raw,
     confidence |-> calculate_confidence(prediction_raw),
     model_version |-> "1.0.0",
     input_features |-> features,
     influencing_factors |-> analyze_influencing_factors(features),
     recommendations |-> generate_recommendations(features, prediction_raw)]

\* the dict predict_live returns
predict_live_result(battle_data, prediction_raw) ==
    [status |-> "ok",
     win_probability |-> prediction_raw,
     confidence |-> calculate_confidence(prediction_raw),
     model_version |-> "1.0.0",
     battle_analysis |-> analyze_battle_state(battle_data),
     recommendations |->
         generate_live_recommendations(prediction_raw, battle_data)]

(***************************************************************************)
(* initialize of the learned backend.  `env` says what the file system and *)
(* the model library do during the call: whether os.makedirs succeeds,     *)
(* whether the weights file exists, and the step (if any) at which         *)
(* _load_model and _create_new_model fail.                                 *)
(***************************************************************************)
InitEnvs ==
    [makedirs : BOOLEAN, exists : BOOLEAN,
     load : {"ok", "construct", "load_weights", "load_scaler"},
     create : {"ok", "construct", "build", "initialize_scaler"}]

\* _create_new_model that logs a failure of build and returns, instead of
\* raising it again
create_new_model_swallows(m, env) ==
    IF env.create = "construct" THEN <<m, FALSE>>
    ELSE IF env.create = "build" THEN <<"unbuilt", TRUE>>
    ELSE IF env.create = "initialize_scaler" THEN <<"built", FALSE>>
    ELSE <<"built", TRUE>>

\* _create_new_model, entered with self.model = m:
\* <<self.model, whether it returned without raising>>
create_new_model(m, env) ==
    IF env.create = "construct" THEN <<m, FALSE>>
    ELSE IF env.create = "build" THEN <<"unbuilt", FALSE>>
    ELSE IF env.create = "initialize_scaler" THEN <<"built", FALSE>>
    ELSE <<"built", TRUE>>

\* _load_model: a failure of any step falls back to _create_new_model
load_model(m, env) ==
    IF env.load = "construct" THEN create_new_model(m, env)
    ELSE IF env.load = "load_weights" THEN create_new_model("unbuilt", env)
    ELSE IF env.load = "load_scaler" THEN create_new_model("loaded", env)
    ELSE <<"loaded", TRUE>>

\* initialize without the is_ready = False of its except branch
InitializeLearned_keeps_ready(env) ==
    /\ backend = "learned"
    /\ LET done ==
               IF ~env.makedirs THEN <<model, FALSE>>
               ELSE IF env.exists THEN load_model(model, env)
               ELSE create_new_model(model, env)
       IN  /\ model' = done[1]
           /\ is_ready' = (done[2] \/ is_ready)
    /\ UNCHANGED <<backend, call, ret, serving, db>>

\* WinPredictor.initialize of the learned backend
InitializeLearned(env) ==
    /\ backend = "learned"
    /\ LET done ==
               IF ~env.makedirs THEN <<model, FALSE>>
               ELSE IF env.exists THEN load_model(model, env)
               ELSE create_new_model(model, env)
       IN  /\ model' = done[1]
           /\ is_ready' = done[2]
    /\ UNCHANGED <<backend, call, ret, serving, db>>

\* WinPredictor.predict of the learned backend
PredictLearned(features, prediction_raw) ==
    /\ backend = "learned"
    /\ call' = [op |-> "predict", features |-> features]
    /\ ret' = IF ~is_ready THEN NotReady
              ELSE predict_result(features, prediction_raw)
    /\ UNCHANGED <<backend, is_ready, model, serving, db>>

\* predict_live without the readiness check of its first statement
PredictLiveLearned_unchecked(battle_data, prediction_raw) ==
    /\ backend = "learned"
    /\ call' = [op |-> "predict_live", battle_data |-> battle_data]
    /\ ret' = predict_live_result(battle_data, prediction_raw)
    /\ UNCHANGED <<backend, is_ready, model, serving, db>>

\* WinPredictor.predict_live of the learned backend
PredictLiveLearned(battle_data, prediction_raw) ==
    /\ backend = "learned"
    /\ call' = [op |-> "predict_live", battle_data |-> battle_data]
    /\ ret' = IF ~is_ready THEN NotReady
              ELSE predict_live_result(battle_data, prediction_raw)
    /\ UNCHANGED <<backend, is_ready, model, serving, db>>

(***************************************************************************)
(* The HTTP endpoints: app/api/v1/endpoints/players_simple.py and          *)
(* predictions.py.  The engine is either called directly (serving is       *)
(* FALSE) or stands behind the endpoints (serving is TRUE), which use the  *)
(* heuristic backend (predictions.py line 8).  ClashRoyaleService is not   *)
(* part of the sources at hand: what get_player returns is any player of   *)
(* Players, or nothing.  The database is kept as the number of rows        *)
(* committed to each table; prediction ids are 1..db.predictions.          *)
(***************************************************************************)
EmptyDb == [predictions |-> 0, feedback |-> 0]

\* clash_service.get_player found no data
NoPlayer == [found |-> FALSE]
Lookups == Players \cup {NoPlayer}
\* the lookups of the requests for a prediction
PredictLookups == {ExamplePlayer, NoPlayer}
PredictionIds == 1..(MaxRows + 1)

HttpOk == 200
HttpNotFound == 404
HttpInternalError == 500

HttpResponse(code, body) == [status |-> "http", code |-> code, body |-> body]
HttpError(code, detail) == [status |-> "http", code |-> code, detail |-> detail]

\* the statistics get_player_stats computes from the player data
player_stats(player_data) ==
    LET wins == Get(player_data, "wins", 0)
        losses == Get(player_data, "losses", 0)
        total_battles == wins + losses
    IN  [win_rate |-> R(wins, Max(1, total_battles)),
         total_battles |-> total_battles,
         skill_rating |->
             RMin(One, R(Get(player_data, "trophies", 0), TrophyCap))]

\* players_simple.get_player: `except HTTPException: raise` lets the 404 out
GetPlayer(looked_up) ==
    /\ serving
    /\ call' = [op |-> "get_player", looked_up |-> looked_up]
    /\ ret' = IF looked_up = NoPlayer
              THEN HttpError(HttpNotFound, "Player not found")
              ELSE HttpResponse(HttpOk,
                       [trophies |-> Get(looked_up, "trophies", 0),
                        wins |-> Get(looked_up, "wins", 0),
                        losses |-> Get(looked_up, "losses", 0)])
    /\ UNCHANGED <<backend, is_ready, model, serving, db>>

\* players_simple.get_player_stats
GetPlayerStats(looked_up) ==
    /\ serving
    /\ call' = [op |-> "get_player_stats", looked_up |-> looked_up]
    /\ ret' = IF looked_up = NoPlayer
              THEN HttpError(HttpNotFound, "Player not found")
              ELSE HttpResponse(HttpOk, player_stats(looked_up))
    /\ UNCHANGED <<backend, is_ready, model, serving, db>>

\* predictions.predict_win_probability: the HTTPException(404) is raised
\* inside the try block whose `except Exception` turns it into a 500
PredictWinProbability(looked_up, r1, r2, u1, u2, u3, u4, choice) ==
    /\ serving
    /\ looked_up # NoPlayer => db.predictions < MaxRows
    /\ call' = [op |-> "predict_win_probability", looked_up |-> looked_up]
    /\ IF looked_up = NoPlayer \/ ~is_ready
       THEN /\ ret' = HttpError(HttpInternalError, "Internal server error")
            /\ db' = db
       ELSE /\ ret' = HttpResponse(HttpOk,
                          predict_result_simple(looked_up, r1, r2,
                                                u1, u2, u3, u4, choice))
            /\ db' = [db EXCEPT !.predictions = @ + 1]
    /\ UNCHANGED <<backend, is_ready, model, serving>>

\* predictions.submit_prediction_feedback: same handling of its 404
SubmitPredictionFeedback(prediction_id) ==
    /\ serving
    /\ prediction_id <= db.predictions => db.feedback < MaxRows
    /\ call' = [op |-> "submit_prediction_feedback",
                prediction_id |-> prediction_id]
    /\ IF prediction_id > db.predictions
       THEN /\ ret' = HttpError(HttpInternalError, "Internal server error")
            /\ db' = db
       ELSE /\ ret' = HttpResponse(HttpOk, [prediction_id |-> prediction_id])
            /\ db' = [db EXCEPT !.feedback = @ + 1]
    /\ UNCHANGED <<backend, is_ready, model, serving>>

(***************************************************************************)
(* The engine and its caller.                                              *)
(***************************************************************************)
\* __init__ of either class
Init ==
    /\ backend \in {"simple", "learned"}
    /\ is_ready = (backend = "simple")
    /\ model = "None"
    /\ call = NoCall
    /\ ret = NoRet
    /\ serving \in BOOLEAN
    /\ serving => backend = "simple"
    /\ db = EmptyDb

\* the caller takes the result (or the error) of the call it made
Respond ==
    /\ ret # NoRet
    /\ call' = NoCall
    /\ ret' = NoRet
    /\ UNCHANGED <<backend, is_ready, model, serving, db>>

Idle == ret = NoRet
\* the engine is called directly, and no call is in progress
Direct == Idle /\ ~serving

Next ==
    \/ Direct /\ InitializeSimple
    \/ Direct /\ \E env \in InitEnvs : InitializeLearned(env)
    \/ Direct /\ \E player_data \in Players, r1 \in Random, r2 \in Random,
                  u1 \in DeckSynergyDraws, u2 \in ElixirEfficiencyDraws,
                  u3 \in OpponentCounterDraws, u4 \in RecentPerformanceDraws,
                  choice \in 1..Len(extra_recommendations) :
                  PredictSimple(player_data, r1, r2, u1, u2, u3, u4, choice)
    \/ Direct /\ \E battle_data \in BattleDatas, r1 \in Random, r2 \in Random,
                  adv \in ElixirAdvantageDraws :
                  PredictLiveSimple(battle_data, r1, r2, adv)
    \/ Direct /\ \E features \in FeatureSets, prediction_raw \in ModelOutputs :
                  PredictLearned(features, prediction_raw)
    \/ Direct /\ \E battle_data \in BattleDatas, prediction_raw \in ModelOutputs :
                  PredictLiveLearned(battle_data, prediction_raw)
    \/ Idle /\ \E looked_up \in Lookups : GetPlayer(looked_up)
    \/ Idle /\ \E looked_up \in Lookups : GetPlayerStats(looked_up)
    \/ Idle /\ \E looked_up \in PredictLookups, r1 \in Random, r2 \in Random,
                  u1 \in DeckSynergyDraws, u2 \in ElixirEfficiencyDraws,
                  u3 \in OpponentCounterDraws, u4 \in RecentPerformanceDraws,
                  choice \in 1..Len(extra_recommendations) :
                  PredictWinProbability(looked_up, r1, r2, u1, u2, u3, u4,
                                        choice)
    \/ Idle /\ \E prediction_id \in PredictionIds :
                  SubmitPredictionFeedback(prediction_id)
    \/ Respond

Spec == Init /\ [][Next]_vars

(***************************************************************************)
(* A caller that calls predict of the heuristic backend again and again    *)
(* for the players of RepeatPlayers, each call following the previous one. *)
(***************************************************************************)
RepeatPlayers == {ExamplePlayer}

NextRepeat ==
    ~serving /\
    \E player_data \in RepeatPlayers, r1 \in Random, r2 \in Random,
       u1 \in DeckSynergyDraws, u2 \in ElixirEfficiencyDraws,
       u3 \in OpponentCounterDraws, u4 \in RecentPerformanceDraws,
       choice \in 1..Len(extra_recommendations) :
       PredictSimple(player_data, r1, r2, u1, u2, u3, u4, choice)

SpecRepeat == Init /\ [][NextRepeat]_vars

(***************************************************************************)
(* Properties.                                                             *)
(***************************************************************************)
Range(seq) == {seq[i] : i \in 1..Len(seq)}
InUnit(x) == RLe(Zero, x) /\ RLe(x, One)
Clamp(lo, hi, x) == RMax(lo, RMin(hi, x))

\* a call of predict / predict_live has returned a result (it did not raise)
PredictReturned == call.op = "predict" /\ ret.status = "ok"
LiveReturned == call.op = "predict_live" /\ ret.status = "ok"

\* C1: every result of predict and predict_live, on either backend, has
\* win_probability in [0, 1] and confidence in [0, 1].
C1_ProbabilityAndConfidenceInUnit ==
    ret.status = "ok" =>
        InUnit(ret.win_probability) /\ InUnit(ret.confidence)

\* C2: the influencing_factors of a prediction have exactly the five fixed
\* names, no weight is negative, and the weights sum to 1 or are all zero;
\* on the learned backend they are all zero exactly when the absolute values
\* of the five signals sum to zero.
C2_FactorWeightsNormalised ==
    PredictReturned =>
        LET w == ret.influencing_factors
        IN  /\ DOMAIN w = FactorNames
            /\ \A k \in FactorNames : RLe(Zero, w[k])
            /\ \/ RSum(w, FactorNames) = One
               \/ \A k \in FactorNames : w[k] = Zero
            /\ backend = "learned" =>
                   ((\A k \in FactorNames : w[k] = Zero)
                    <=> (\A k \in FactorNames :
                            Get(call.features, FactorFeature[k], Zero) = Zero))

\* C3: two calls of predict on the heuristic backend with the same
\* player_data, one after the other, return the same result.
C3_HeuristicDeterministic ==
    [][(/\ backend = "simple"
        /\ PredictReturned
        /\ PredictReturned'
        /\ call'.player_data = call.player_data) => ret' = ret]_vars

\* C4: the win_probability of the heuristic backend is
\* clamp(0.1, 0.9, 0.6 * win_rate + 0.4 * trophy_factor), nothing added.
C4_HeuristicBlend ==
    (backend = "simple" /\ PredictReturned) =>
        LET wins == call.player_data.wins
            losses == call.player_data.losses
            win_rate == R(wins, Max(1, wins + losses))
            trophy_factor == RMin(One, R(call.player_data.trophies, 6000))
        IN  ret.win_probability =
                Clamp(R(1, 10), R(9, 10),
                      RAdd(RMul(R(6, 10), win_rate), RMul(R(4, 10), trophy_factor)))

\* C5: in every result, confidence = clamp(0, 1, 2 * |win_probability - 0.5|)
\* of the win_probability of the same result.
C5_ConfidenceFromProbability ==
    ret.status = "ok" =>
        ret.confidence =
            Clamp(Zero, One, RMul(RInt(2), RAbs(RSub(ret.win_probability, Half))))

\* C6: the phase a live prediction reports is a function of the remaining
\* time alone, the same on both backends: more than 120 is early_game,
\* 61..120 is mid_game, 1..60 is late_game, 0 or less is overtime.
C6_BattlePhaseOfRemainingTime ==
    (LiveReturned /\ "time_remaining" \in DOMAIN call.battle_data
         /\ call.battle_data.time_remaining # NoneInt) =>
        LET t == call.battle_data.time_remaining
            phase == ret.battle_analysis.current_phase
        IN  /\ phase \in Phases
            /\ phase = "early_game" <=> t > 120
            /\ phase = "mid_game" <=> (61 <= t /\ t <= 120)
            /\ phase = "late_game" <=> (1 <= t /\ t <= 60)
            /\ phase = "overtime" <=> t <= 0
            /\ determine_battle_phase(call.battle_data)
                   = determine_battle_phase_simple(t)

\* C6: a live prediction with exactly 120 seconds left has reported mid_game
C6_Witness ==
    /\ LiveReturned
    /\ backend = "learned"
    /\ "time_remaining" \in DOMAIN call.battle_data
    /\ call.battle_data.time_remaining = 120
    /\ ret.battle_analysis.current_phase = "mid_game"
    /\ InUnit(ret.win_probability)

\* C7: every recommendations list has at least 1 and at most 3 items.
C7_RecommendationCount ==
    ret.status = "ok" =>
        /\ 1 <= Len(ret.recommendations)
        /\ Len(ret.recommendations) <= 3

DefensiveAdvice ==
    {"Consider a more defensive strategy", "Focus on defensive plays"}
AggressiveAdvice ==
    {"You have a strong advantage - maintain pressure",
     "Maintain aggressive pressure"}
BalancedAdvice ==
    {"Match is balanced - adapt to opponent's strategy",
     "Adapt to opponent's strategy"}
SynergyWarning == "Your deck synergy is low - consider card substitutions"

\* the deck_synergy_score of the call's feature set (0 when it has none)
CallSynergyScore ==
    IF backend = "learned" THEN Get(call.features, "deck_synergy_score", Zero)
    ELSE Zero

\* C8: in snapshot mode the band of advice follows win_probability alone:
\* below 0.4 defensive advice, with the synergy warning in the returned list
\* exactly when deck_synergy_score < 0.5; above 0.7 aggressive advice;
\* otherwise (0.4 and 0.7 included) balanced advice.
C8_SnapshotBands ==
    PredictReturned =>
        LET p == ret.win_probability
            recs == ret.recommendations
            band == IF RLt(p, R(4, 10)) THEN DefensiveAdvice
                    ELSE IF RGt(p, R(7, 10)) THEN AggressiveAdvice
                    ELSE BalancedAdvice
        IN  /\ Len(recs) >= 1
            /\ recs[1] \in band
            /\ Range(recs) \cap (DefensiveAdvice \cup AggressiveAdvice
                                 \cup BalancedAdvice) \subseteq band
            /\ SynergyWarning \in Range(recs)
                   <=> (RLt(p, R(4, 10)) /\ RLt(CallSynergyScore, Half))

PatienceAdvice == "Heavy deck - be patient with elixir management"
CycleAdvice == "Fast cycle deck - maintain constant pressure"

PhaseAdvice ==
    [early_game |->
         {"Learn opponent's deck rotation", "Focus on learning opponent's deck"},
     mid_game |->
         {"Build your main push", "Build a strong push",
          "Defend and counter-attack"},
     late_game |->
         {"Go for decisive plays", "Play defensively - protect your lead",
          "Time for aggressive plays"},
     overtime |-> {"Go for decisive plays", "High-risk, high-reward plays"}]
ElixirReminder == "Watch your elixir management"

\* C10: in live mode the recommendations begin with advice of the phase the
\* classifier reports and end with the generic elixir-management reminder.
C10_LiveAdviceThenReminder ==
    LiveReturned =>
        LET recs == ret.recommendations
        IN  /\ Len(recs) >= 2
            /\ recs[1] \in PhaseAdvice[ret.battle_analysis.current_phase]
            /\ recs[Len(recs)] = ElixirReminder

PredictionCalls == {"predict", "predict_live"}

\* C11: a predict or predict_live call made while the engine is not ready
\* ends in the not-ready error and carries no result; a call made while it
\* is ready never ends in that error; the heuristic backend, ready from
\* construction, never gives it.
C11_NotReadyError ==
    call.op \in PredictionCalls =>
        /\ ~is_ready => ret = NotReady
        /\ is_ready => ret # NotReady
        /\ backend = "simple" => is_ready /\ ret # NotReady

\* C11: a live call on a learned engine that is not ready is refused
C11_Witness ==
    /\ backend = "learned"
    /\ ~is_ready
    /\ call.op = "predict_live"
    /\ ret = NotReady

\* a model object that can score: weights loaded, or newly built
UsableModels == {"loaded", "built"}

\* the initialize call reaches the last statement of its try block: the
\* directory is made and the model is loaded or, failing that or without a
\* weights file, newly created
InitializeCompletes(env) ==
    /\ env.makedirs
    /\ env.create = "ok" \/ (env.exists /\ env.load = "ok")

C13_CallsIndependent ==
    [][call'.op \in PredictionCalls /\ call' # call =>
           /\ UNCHANGED <<backend, is_ready, model>>
           /\ backend = "simple" /\ call'.op = "predict" =>
                  \A r1 \in Random, r2 \in Random,
                     u1 \in DeckSynergyDraws, u2 \in ElixirEfficiencyDraws,
                     u3 \in OpponentCounterDraws,
                     u4 \in RecentPerformanceDraws,
                     choice \in 1..Len(extra_recommendations) :
                     ret' = predict_result_simple(call'.player_data, r1, r2,
                                                  u1, u2, u3, u4, choice)
           /\ backend = "simple" /\ call'.op = "predict_live" =>
                  \A r1 \in Random, r2 \in Random,
                     adv \in ElixirAdvantageDraws :
                     ret' = predict_live_result_simple(call'.battle_data,
                                                       r1, r2, adv)]_vars

\* C14: when the learned model answers with a scalar outside [0,1], predict
\* and predict_live of a ready engine still return a result, and its
\* win_probability is that scalar clamped into [0,1].
C14_OutOfRangeClamped ==
    [][\A prediction_raw \in ModelOutputs :
           /\ backend = "learned" /\ is_ready /\ call'.op = "predict"
                  /\ PredictLearned(call'.features, prediction_raw) =>
                  /\ ret'.status = "ok"
                  /\ ret'.win_probability = Clamp(Zero, One, prediction_raw)
           /\ backend = "learned" /\ is_ready /\ call'.op = "predict_live"
                  /\ PredictLiveLearned(call'.battle_data, prediction_raw) =>
                  /\ ret'.status = "ok"
                  /\ ret'.win_probability = Clamp(Zero, One, prediction_raw)
      ]_vars

\* a stage of the live call fails: the battle context holds None as the
\* remaining time, and classifying the phase raises
LiveStageFails ==
    /\ call.op = "predict_live"
    /\ "time_remaining" \in DOMAIN call.battle_data
    /\ call.battle_data.time_remaining = NoneInt

\* C15: a call in which a stage fails ends in an error reported to the
\* caller; it never returns a result in which the output of the failed
\* stage is replaced by a fallback (an empty battle analysis, an empty
\* recommendations list).
C15_StageFailureReported ==
    LiveStageFails =>
        /\ ret.status = "error"
        /\ ~(ret.status = "ok" /\ ret.battle_analysis = EmptyDict)
        /\ ~(ret.status = "ok" /\ ret.recommendations = <<>>)

\* the key of the battle analysis that mirrors each key of the context
AnalysisKey ==
    [time_remaining |-> "battle_time_remaining",
     player_towers |-> "player_towers",
     opponent_towers |-> "opponent_towers",
     elixir_advantage |-> "elixir_advantage"]

\* C16: the battle analysis of every live result repeats the remaining
\* time, the two tower counts and the elixir advantage of the battle
\* context the call was given, and its current_phase is the phase the
\* classifier gives for that context (a context whose remaining time is a
\* number: with None the classifier gives no phase).
C16_BattleAnalysisMirrorsContext ==
    LiveReturned /\ ~LiveStageFails =>
        LET analysis == ret.battle_analysis
            battle_data == call.battle_data
        IN  /\ DOMAIN analysis =
                   {AnalysisKey[k] : k \in DOMAIN AnalysisKey}
                       \cup {"current_phase"}
            /\ \A k \in DOMAIN battle_data :
                   analysis[AnalysisKey[k]] = battle_data[k]
            /\ analysis.current_phase =
                   IF backend = "simple"
                   THEN determine_battle_phase_simple(
                            Get(battle_data, "time_remaining",
                                DefaultTimeSimple))
                   ELSE determine_battle_phase(battle_data)

\* the two ratios as the claim gives them, for a player record
ExpectedWinRate(player_data) ==
    IF player_data.wins + player_data.losses = 0 THEN Zero
    ELSE R(player_data.wins, player_data.wins + player_data.losses)
ExpectedTrophyFactor(player_data) ==
    IF player_data.trophies >= TrophyCap THEN One
    ELSE R(player_data.trophies, TrophyCap)

StatsReturned == call.op = "get_player_stats" /\ ret.code = HttpOk

\* C17: win_rate is wins / max(1, wins + losses), so 0 for a player without
\* battles and never a division by zero, and lies in [0,1]; trophy_factor
\* is min(1, trophies / 6000), in [0,1] and exactly 1 from 6000 trophies
\* on; the heuristic predictor (input_features) and the player-stats
\* endpoint (win_rate, skill_rating) give the same two values for the same
\* player.
C17_WinRateAndTrophyFactor ==
    /\ PredictReturned /\ backend = "simple" =>
           LET player_data == call.player_data
               features == ret.input_features
           IN  /\ features.win_rate = ExpectedWinRate(player_data)
               /\ features.trophy_factor = ExpectedTrophyFactor(player_data)
               /\ InUnit(features.win_rate)
               /\ InUnit(features.trophy_factor)
               /\ features.win_rate = player_stats(player_data).win_rate
               /\ features.trophy_factor =
                      player_stats(player_data).skill_rating
    /\ StatsReturned =>
           LET player_data == call.looked_up
               stats == ret.body
           IN  /\ stats.win_rate = ExpectedWinRate(player_data)
               /\ stats.skill_rating = ExpectedTrophyFactor(player_data)
               /\ InUnit(stats.win_rate)
               /\ InUnit(stats.skill_rating)
               /\ stats.win_rate = win_rate_simple(player_data)
               /\ stats.skill_rating = trophy_factor_simple(player_data)

\* C17: the statistics of a player without battles and with more than
\* 6000 trophies have been served
C17_Witness ==
    /\ StatsReturned
    /\ call.looked_up.wins + call.looked_up.losses = 0
    /\ call.looked_up.trophies > TrophyCap
    /\ ret.body.win_rate = Zero
    /\ ret.body.skill_rating = One

ProtectLeadAdvice == "Play defensively - protect your lead"
AggressivePlayAdvice == "Time for aggressive plays"
StrongPushAdvice == "Build a strong push"
CounterAttackAdvice == "Defend and counter-attack"

\* C18: in the live recommendations of the learned backend, late_game
\* gives the protect-your-lead advice exactly when the player has strictly
\* more towers left than the opponent and the aggressive-play advice
\* otherwise; mid_game gives the strong-push advice exactly when the win
\* probability is above 0.6 and the defend-and-counter advice otherwise.
C18_LeadAndPushAdvice ==
    backend = "learned" /\ LiveReturned /\ ~LiveStageFails =>
        LET recs == Range(ret.recommendations)
            phase == ret.battle_analysis.current_phase
            player_towers == ret.battle_analysis.player_towers
            opponent_towers == ret.battle_analysis.opponent_towers
        IN  /\ phase = "late_game" =>
                   /\ ProtectLeadAdvice \in recs
                          <=> player_towers > opponent_towers
                   /\ AggressivePlayAdvice \in recs
                          <=> ~(player_towers > opponent_towers)
            /\ phase = "mid_game" =>
                   /\ StrongPushAdvice \in recs
                          <=> RGt(ret.win_probability, PushBand)
                   /\ CounterAttackAdvice \in recs
                          <=> ~RGt(ret.win_probability, PushBand)

\* the initialize call gets to _create_new_model: there is no weights file,
\* or loading it failed
CreationAttempted(env) ==
    env.makedirs /\ (~env.exists \/ env.load # "ok")

\* C19: on the learned backend is_ready holds only while the model is
\* loaded or built (never None, never a model whose build failed); an
\* initialize call whose model creation fails leaves is_ready false; and
\* when loading fails the call creates a new model before it decides
\* readiness, so that it ends ready with the built model if creation
\* succeeds.
C19_ReadyImpliesModel ==
    [][/\ backend = "learned" /\ is_ready => model \in UsableModels
       /\ backend = "learned" /\ is_ready' => model' \in UsableModels
       /\ ret' = ret =>
              \A env \in InitEnvs :
                  InitializeLearned(env) =>
                      /\ CreationAttempted(env) /\ env.create # "ok" =>
                             ~is_ready'
                      /\ CreationAttempted(env) /\ env.create = "ok" =>
                             is_ready' /\ model' = "built"]_vars

\* C19: a ready learned engine, its model newly built, has served a
\* prediction
C19_Witness ==
    /\ backend = "learned"
    /\ is_ready
    /\ model = "built"
    /\ PredictReturned
    /\ InUnit(ret.win_probability)

EndpointCalls ==
    {"get_player", "get_player_stats", "predict_win_probability",
     "submit_prediction_feedback"}

\* the request `c` asks for something that is not there: the player lookup
\* returns no data, or no prediction has the id
NotFound(c) ==
    IF c.op = "submit_prediction_feedback"
    THEN c.prediction_id > db.predictions
    ELSE c.looked_up = NoPlayer

\* C20: an endpoint answers a request for a missing player or a missing
\* prediction with 404 and writes nothing to the database; it answers 500
\* only when something unexpected failed, never for a not-found.
C20_NotFoundIs404 ==
    [][ret = NoRet /\ call'.op \in EndpointCalls =>
           /\ NotFound(call') => ret'.code = HttpNotFound /\ db' = db
           /\ ret'.code = HttpInternalError => ~NotFound(call')]_vars

====
